---- MODULE Spec2Model ----
(***************************************************************************)
(* The HTTP/2 connection engine of httpcore, in its two variants:          *)
(*   _sync/http2.py   SyncHTTP2Connection / SyncHTTP2Stream  (threads)     *)
(*   _async/http2.py  AsyncHTTP2Connection / AsyncHTTP2Stream (tasks)      *)
(* One engine is shared by the callers in Tasks.  In the sync variant a    *)
(* thread may be preempted between any two steps; in the async variant a   *)
(* task runs until it reaches a suspension point (socket read, socket      *)
(* write, lock acquire), which the variable `running` enforces.            *)
(* The h2 codec, the socket and the peer behind it are the engine's        *)
(* collaborators; h2_state, socket and peer model them.                    *)
(*   _async/http_proxy.py  AsyncHTTPProxy, the proxy dispatcher, with the  *)
(* pool of HTTP/1.1 connections it keeps; its specification is ProxySpec.  *)
(***************************************************************************)
EXTENDS Integers, Sequences, FiniteSets, TLC

\* ------------------------------------------------------------------ bounds
\* callers sharing one engine
Tasks == {"t1", "t2"}
\* request() calls made in one behaviour
MaxRequests == 2
\* bytes of a request body
MaxBody == 2
\* frames the peer puts on the wire in one behaviour
MaxWire == 2
\* socket.close() calls counted on the async engine
MaxSocketClose == 2
\* h2's HIGHEST_ALLOWED_STREAM_ID (2^31 - 1), scaled down: the codec has
\* MaxStreamId's worth of ids (two streams), or room for one stream only
MaxStreamId == 3
StreamIdSpace == {1, MaxStreamId}
\* the peer's SETTINGS_INITIAL_WINDOW_SIZE (65535), scaled down
InitialWindow == 2
\* h2's max_outbound_frame_size (16384), scaled down
MaxFrameSize == 1

\* requests made of the proxy dispatcher in one behaviour
MaxProxyRequests == 2
\* connections the proxy dispatcher creates in one behaviour
MaxConnections == 2

\* socket reads made while the write path is followed
MaxReads == 2

NoTask == "none"
NoStream == 0

VARIABLES
    variant,               \* "sync" | "async": which engine is running
    state,                 \* self.state : ConnectionState
    sent_connection_init,  \* self.sent_connection_init (sync only)
    streams,               \* self.streams : stream id -> owning caller
    events,                \* self.events  : stream id -> FIFO of events
    init_lock,             \* holder of self.init_lock, or NoTask
    read_lock,             \* holder of self.read_lock (sync only), or NoTask
    sem_held,              \* slots of self.streams_semaphore in use (sync only)
    h2_state,              \* self.h2_state : the h2 codec (its outbound side)
    socket,                \* self.socket, and what the peer has put on the wire
    peer,                  \* the peer's view of each stream it has seen
    requests,              \* request() calls made so far
    task,                  \* per caller: its position and local variables
    running,               \* async: the task that has not yet suspended
    allocated,             \* history: ids returned to request(), in order
    full_or_closed,        \* history: a FULL or CLOSED transition occurred
    overdrawn,             \* history: a send_data call exceeded the flow
    produced,              \* history: per stream, events the codec produced
    delivered,             \* history: per stream, events wait_for_event returned
    proxy_mode,            \* AsyncHTTPProxy.proxy_mode
    proxy_origin,          \* AsyncHTTPProxy.proxy_origin
    connections,           \* AsyncHTTPProxy.connections : origin -> set of connections
    conn,                  \* the connection objects created so far, by number
    ptask,                 \* per caller of the proxy: its position and locals
    proxy_requests,        \* AsyncHTTPProxy.request() calls made so far
    wtask,                 \* write path: per caller, its position and locals
    generated,             \* write path, history: the output of each codec call, in order
    outbuf,                \* write path: output h2_state.data_to_send() has not yet returned
    writes,                \* write path, history: output passed to socket.write, in call order
    inwrite,               \* write path: the callers inside socket.write
    reads                  \* write path: socket.read calls made so far

engine_vars == <<state, sent_connection_init, streams, events, init_lock,
                 read_lock, sem_held>>
hist_vars   == <<allocated, full_or_closed, overdrawn, produced, delivered>>
proxy_vars  == <<proxy_mode, proxy_origin, connections, conn, ptask,
                 proxy_requests>>
h2_vars     == <<variant, engine_vars, h2_state, socket, peer, requests, task,
                 running, hist_vars>>
codec_vars == <<generated, outbuf>>
sock_vars   == <<writes, inwrite, reads>>
write_vars  == <<wtask, codec_vars, sock_vars>>
vars == <<h2_vars, proxy_vars, write_vars>>

\* ------------------------------------------------------------- data model
ConnectionState == {"PENDING", "READY", "ACTIVE", "IDLE", "FULL", "CLOSED"}

\* h2 events.  stream_id 0 stands for an event without a stream_id attribute.
Event(type, sid, n) == [type |-> type, stream_id |-> sid, n |-> n]

\* hasattr(event, "error_code"): h2's StreamReset and ConnectionTerminated
HasErrorCode(e) == e.type \in {"StreamReset", "ConnectionTerminated"}

Min(a, b) == IF a <= b THEN a ELSE b
Max(a, b) == IF a >= b THEN a ELSE b

\* dict helpers: d[k] = v, del d[k]
DictSet(d, k, v) == [x \in DOMAIN d \cup {k} |-> IF x = k THEN v ELSE d[x]]
DictDel(d, k)    == [x \in DOMAIN d \ {k} |-> d[x]]

\* r with the fields of c replaced
Upd(r, c) == [x \in DOMAIN r |-> IF x \in DOMAIN c THEN c[x] ELSE r[x]]

\* len(data[:n]) for a bytes object of length len (n may be negative)
SliceLen(len, n) == IF n >= 0 THEN Min(len, n) ELSE Max(len + n, 0)

\* A caller outside any call.
\*   pc         where it is in the code
\*   stream_id  the id request() took for it
\*   has_body   content-length or transfer-encoding is among its headers
\*   data       bytes of its body still to send
\*   max_flow   what wait_for_outgoing_flow returned
\*   rbuf       what its socket.read returned, as the events h2 makes of it
\*   phase      who waits for events: "flow" (wait_for_outgoing_flow),
\*              "headers" (receive_response), "body" (body_iter)
\*   err        the exception that ended its call
\*   zero_read  history: its last socket.read returned b""
IdleTask == [pc |-> "idle", stream_id |-> NoStream, has_body |-> FALSE,
             data |-> 0, max_flow |-> 0, rbuf |-> <<>>, phase |-> "headers",
             err |-> "none", zero_read |-> FALSE]

EngineInit ==
    /\ variant \in {"sync", "async"}
    /\ state = IF variant = "sync" THEN "ACTIVE" ELSE "PENDING"
    /\ sent_connection_init = FALSE
    /\ streams = <<>>
    /\ events = <<>>
    /\ init_lock = NoTask
    /\ read_lock = NoTask
    /\ sem_held = 0
    /\ \E highest \in StreamIdSpace :
         h2_state = [initiated |-> 0,
                   HIGHEST_ALLOWED_STREAM_ID |-> highest,
                   highest_outbound_stream_id |-> 0,
                   outbound_flow_control_window |-> InitialWindow,
                   initial_window_size |-> InitialWindow,
                   window |-> <<>>,
                   local |-> <<>>,
                   closed |-> FALSE]
    /\ socket = [close_calls |-> 0, wire |-> <<>>, eof |-> FALSE, sent |-> 0]
    /\ peer = <<>>
    /\ requests = 0
    /\ task = [t \in Tasks |-> IdleTask]
    /\ running = NoTask
    /\ allocated = <<>>
    /\ full_or_closed = FALSE
    /\ overdrawn = FALSE
    /\ produced = <<>>
    /\ delivered = <<>>

\* The callers of the proxy dispatcher, and a caller outside any call.
ProxyTasks == {"p1", "p2"}
NoConnection == 0
IdleProxyTask == [pc |-> "idle", scheme |-> "http", origin |-> <<>>,
                  path |-> "none", connection |-> NoConnection,
                  status |-> 0, err |-> "none", message |-> <<>>]

\* AsyncHTTPProxy.__init__ line 35-47 with a given origin and mode
ProxyConstructed(origin, mode) ==
    /\ proxy_mode = mode
    /\ proxy_origin = origin
    /\ connections = <<>>
    /\ conn = <<>>
    /\ ptask = [p \in ProxyTasks |-> IdleProxyTask]
    /\ proxy_requests = 0

\* A caller of the write path outside any call.
\*   op       the send_* or receive_events call it is in
\*   payload  the local data_to_send of that call, as positions in generated
\*   mine     the output the codec generated for that call
\*   batch    what its socket.read returned
IdleWriter == [pc |-> "idle", op |-> "none", stream_id |-> NoStream,
               has_body |-> FALSE, payload |-> <<>>, mine |-> {},
               batch |-> <<>>, err |-> "none"]

\* The codec's output buffer and the socket's write side after construction.
WriteConstructed ==
    /\ wtask = [t \in Tasks |-> IdleWriter]
    /\ generated = <<>>
    /\ outbuf = <<>>
    /\ writes = <<>>
    /\ inwrite = {}
    /\ reads = 0

\* An engine used directly, without a proxy dispatcher in front of it.
Init ==
    /\ EngineInit
    /\ ProxyConstructed(<<"http", "proxy">>, "DEFAULT")
    /\ WriteConstructed

\* ------------------------------------------------------------- scheduling
\* Sync: threads interleave at every step.  Async: a task keeps the
\* processor until it awaits the socket or a lock.
CanRun(t) == running \in {NoTask, t}
KeepsRunning(t) == IF variant = "async" THEN t ELSE NoTask

\* The caller goes on with the local variables in c changed.
Step(t, c) == task' = [task EXCEPT ![t] = Upd(@, c)]

\* An exception leaves request() or the body iteration.
Raise(t, kind) ==
    task' = [task EXCEPT ![t] = Upd(IdleTask,
                [pc |-> "failed", err |-> kind, stream_id |-> @.stream_id,
                 zero_read |-> @.zero_read])]

\* The response body was closed: the caller still holds the body object and
\* may close it again.
Closed(t) ==
    task' = [task EXCEPT ![t] = Upd(IdleTask,
                [pc |-> "closed", stream_id |-> @.stream_id])]

\* An exception leaves the close of the response body.
RaiseInClose(t, kind) ==
    task' = [task EXCEPT ![t] = Upd(IdleTask,
                [pc |-> "close_failed", err |-> kind,
                 stream_id |-> @.stream_id])]

\* A caller that is not inside a call may start one.  The callers are
\* interchangeable: the first call is taken to be t1's.
Outside(t) ==
    /\ task[t].pc \in {"idle", "closed", "failed", "close_failed"}
    /\ requests = 0 => t = "t1"

\* request() entry, with or without a body of MaxBody bytes
EnterRequest(t, body) ==
    /\ requests' = requests + 1
    /\ task' = [task EXCEPT ![t] = Upd(IdleTask,
                   [pc |-> "init_lock", has_body |-> body,
                    data |-> IF body THEN MaxBody ELSE 0])]

\* --------------------------------------------------------------- h2 codec
\* h2_state.get_next_available_stream_id(): the next odd id above the highest
\* id HEADERS were sent on.  It does not reserve the id.  NoStream stands for
\* NoAvailableStreamIDError.
get_next_available_stream_id ==
    LET next == IF h2_state.highest_outbound_stream_id = 0 THEN 1
                ELSE h2_state.highest_outbound_stream_id + 2
    IN  IF next > h2_state.HIGHEST_ALLOWED_STREAM_ID THEN NoStream ELSE next

\* h2_state.local_flow_control_window(stream_id)
local_flow_control_window(sid) ==
    Min(h2_state.outbound_flow_control_window, h2_state.window[sid])

\* The socket was closed by close(): reads and writes on it raise.
SocketClosed == socket.close_calls > 0

\* A codec call on a stream h2 no longer sends on raises an h2 error.
H2Refuses(sid) ==
    \/ h2_state.closed
    \/ sid \notin DOMAIN h2_state.local
    \/ h2_state.local[sid] # "open"

\* ------------------------------------------- SyncHTTP2Connection.request
\* request(), line 103-105: streams_semaphore.acquire().  The semaphore is
\* created here on first use with h2's remote max_concurrent_streams, which is
\* h2's default (2^32 + 1) because no SETTINGS frame was read yet: the acquire
\* never blocks.
SyncRequest(t) ==
    /\ variant = "sync"
    /\ Outside(t)
    /\ requests < MaxRequests
    /\ \E body \in BOOLEAN : EnterRequest(t, body)
    /\ sem_held' = sem_held + 1
    /\ UNCHANGED <<proxy_vars, write_vars, variant, state, sent_connection_init, streams, events,
                   init_lock, read_lock, h2_state, socket, peer, running,
                   hist_vars>>

\* request(), line 107-112: enter init_lock; the first caller sets ACTIVE and
\* performs the handshake (send_connection_init, line 129-159).  The socket
\* write of the handshake may raise; the exception leaves the with block and
\* the finally clause releases the semaphore.
SyncConnectionInit(t) ==
    /\ variant = "sync"
    /\ task[t].pc = "init_lock"
    /\ init_lock = NoTask
    /\ IF sent_connection_init
       THEN /\ init_lock' = t
            /\ Step(t, [pc |-> "alloc"])
            /\ UNCHANGED <<state, sent_connection_init, sem_held, h2_state>>
       ELSE /\ state' = "ACTIVE"
            /\ h2_state' = [h2_state EXCEPT !.initiated = @ + 1]
            /\ \/ /\ ~SocketClosed
                  /\ sent_connection_init' = TRUE
                  /\ init_lock' = t
                  /\ Step(t, [pc |-> "alloc"])
                  /\ UNCHANGED sem_held
               \/ /\ sem_held' = sem_held - 1
                  /\ Raise(t, "SocketError")
                  /\ UNCHANGED <<sent_connection_init, init_lock>>
    /\ UNCHANGED <<proxy_vars, write_vars, variant, streams, events, read_lock, socket, peer,
                   requests, running, hist_vars>>

\* request(), line 114-122: allocate the stream id under init_lock, set FULL
\* and raise NewConnectionRequired when the codec has none, else set ACTIVE;
\* leave init_lock and release the semaphore.
SyncAllocate(t) ==
    /\ variant = "sync"
    /\ task[t].pc = "alloc"
    /\ init_lock' = NoTask
    /\ sem_held' = sem_held - 1
    /\ LET id == get_next_available_stream_id
       IN  IF id = NoStream
           THEN /\ state' = "FULL"
                /\ full_or_closed' = TRUE
                /\ Raise(t, "NewConnectionRequired")
                /\ UNCHANGED allocated
           ELSE /\ state' = "ACTIVE"
                /\ allocated' = Append(allocated, id)
                /\ Step(t, [pc |-> "register", stream_id |-> id])
                /\ UNCHANGED full_or_closed
    /\ UNCHANGED <<proxy_vars, write_vars, variant, sent_connection_init, streams, events, read_lock,
                   h2_state, socket, peer, requests, running, overdrawn,
                   produced, delivered>>

\* request(), line 124-125: self.streams[stream_id] = h2_stream
RegisterStream(t) ==
    /\ task[t].pc = "register"
    /\ CanRun(t)
    /\ streams' = DictSet(streams, task[t].stream_id, t)
    /\ Step(t, [pc |-> "register_events"])
    /\ running' = KeepsRunning(t)
    /\ UNCHANGED <<proxy_vars, write_vars, variant, state, sent_connection_init, events, init_lock,
                   read_lock, sem_held, h2_state, socket, peer, requests,
                   hist_vars>>

\* request(), line 126: self.events[stream_id] = []
RegisterEvents(t) ==
    /\ task[t].pc = "register_events"
    /\ CanRun(t)
    /\ LET sid == task[t].stream_id
       IN  /\ events' = DictSet(events, sid, <<>>)
           /\ IF sid \in DOMAIN events
              THEN UNCHANGED <<produced, delivered>>
              ELSE /\ produced' = DictSet(produced, sid, <<>>)
                   /\ delivered' = DictSet(delivered, sid, <<>>)
    /\ Step(t, [pc |-> "send_headers"])
    /\ running' = KeepsRunning(t)
    /\ UNCHANGED <<proxy_vars, write_vars, variant, state, sent_connection_init, streams, init_lock,
                   read_lock, sem_held, h2_state, socket, peer, requests,
                   allocated, full_or_closed, overdrawn>>

\* ---------------------------------------------- SyncHTTP2Stream.request
\* Where request() goes once the HEADERS are written: line 292-296.
AfterHeaders(t) ==
    IF ~task[t].has_body THEN "wait_event"
    ELSE IF task[t].data > 0 THEN "send_body" ELSE "end_stream"

\* Stream.request line 281-291, Stream.send_headers line 304-324 and
\* Connection.send_headers line 224-234: h2_state.send_headers with
\* end_stream = not has_body, then the socket write.  h2 begins the stream
\* here (highest_outbound_stream_id moves); on a stream it has already begun
\* it takes the call as trailers, accepted only with end_stream on a stream
\* whose local side is open.
SendHeaders(t) ==
    /\ task[t].pc = "send_headers"
    /\ CanRun(t)
    /\ running' = NoTask
    /\ LET sid == task[t].stream_id
           end_stream == ~task[t].has_body
           begun == sid \in DOMAIN h2_state.local
           refused == \/ h2_state.closed
                      \/ begun /\ ~(h2_state.local[sid] = "open" /\ end_stream)
       IN  IF refused
           THEN /\ Raise(t, "H2Error")
                /\ UNCHANGED <<h2_state, peer>>
           ELSE /\ h2_state' = [h2_state EXCEPT
                     !.highest_outbound_stream_id = IF begun THEN @ ELSE sid,
                     !.window = IF begun THEN @
                                ELSE DictSet(@, sid,
                                             h2_state.initial_window_size),
                     !.local = DictSet(@, sid, IF end_stream THEN "closed"
                                               ELSE "open")]
                /\ IF SocketClosed
                   THEN /\ Raise(t, "SocketError")
                        /\ UNCHANGED peer
                   ELSE /\ peer' = IF begun THEN peer
                                   ELSE DictSet(peer, sid, "open")
                        /\ Step(t, [pc |-> AfterHeaders(t)])
    /\ UNCHANGED <<proxy_vars, write_vars, variant, engine_vars, socket, requests, hist_vars>>

\* The flow wait_for_outgoing_flow computes, line 183-185 and 188-190.
outgoing_flow(sid) == Min(local_flow_control_window(sid), MaxFrameSize)

\* send_body line 329-333 with wait_for_outgoing_flow line 183-186 (and
\* 188-191 after receive_events): compute the flow; while it is zero drive
\* receive_events (without read_lock), else return it.  h2 raises for a
\* stream that was reset.
WaitForOutgoingFlow(t) ==
    /\ task[t].pc = "send_body"
    /\ CanRun(t)
    /\ LET sid == task[t].stream_id
       IN  IF h2_state.local[sid] = "reset"
           THEN /\ Raise(t, "H2Error")
                /\ running' = NoTask
           ELSE IF outgoing_flow(sid) = 0
           THEN /\ Step(t, [pc |-> "recv_read", phase |-> "flow"])
                /\ running' = NoTask
           ELSE /\ Step(t, [pc |-> "send_data",
                            max_flow |-> outgoing_flow(sid)])
                /\ running' = KeepsRunning(t)
    /\ UNCHANGED <<proxy_vars, write_vars, variant, engine_vars, h2_state, socket, peer, requests,
                   hist_vars>>

\* send_body line 334-336 and Connection.send_data line 236-241: cut the
\* chunk with Python slicing, hand it to h2_state.send_data, write.  h2
\* raises FlowControlError / FrameTooLargeError for a chunk above the window
\* or the frame size, and an error for a stream it no longer sends on.
SendData(t) ==
    /\ task[t].pc = "send_data"
    /\ CanRun(t)
    /\ running' = NoTask
    /\ LET sid == task[t].stream_id
           chunk_size == Min(task[t].data, task[t].max_flow)
           chunk == SliceLen(task[t].data, chunk_size)
           rest == task[t].data - chunk
       IN  /\ overdrawn' = (overdrawn \/ outgoing_flow(sid) <= 0
                                      \/ chunk > outgoing_flow(sid))
           /\ IF \/ H2Refuses(sid)
                 \/ chunk > local_flow_control_window(sid)
                 \/ chunk > MaxFrameSize
              THEN /\ Raise(t, "H2Error")
                   /\ UNCHANGED h2_state
              ELSE /\ h2_state' = [h2_state EXCEPT
                        !.window[sid] = @ - chunk,
                        !.outbound_flow_control_window = @ - chunk]
                   /\ IF SocketClosed
                      THEN Raise(t, "SocketError")
                      ELSE Step(t, [pc |-> IF rest > 0 THEN "send_body"
                                           ELSE "end_stream",
                                    data |-> rest])
    /\ UNCHANGED <<proxy_vars, write_vars, variant, engine_vars, socket, peer, requests, allocated,
                   full_or_closed, produced, delivered>>

\* send_body line 338 and Connection.end_stream line 243-248.
EndStream(t) ==
    /\ task[t].pc = "end_stream"
    /\ CanRun(t)
    /\ running' = NoTask
    /\ LET sid == task[t].stream_id
       IN  IF H2Refuses(sid)
           THEN /\ Raise(t, "H2Error")
                /\ UNCHANGED h2_state
           ELSE /\ h2_state' = [h2_state EXCEPT !.local[sid] = "closed"]
                /\ IF SocketClosed
                   THEN Raise(t, "SocketError")
                   ELSE Step(t, [pc |-> "wait_event"])
    /\ UNCHANGED <<proxy_vars, write_vars, variant, engine_vars, socket, peer, requests, hist_vars>>

\* ---------------------------------------------------------- wait_for_event
\* sync wait_for_event line 201-203: take read_lock, then the loop test:
\* KeyError when the stream is not registered; leave the loop and the with
\* block when the FIFO is not empty; else read the socket under the lock.
SyncWaitForEvent(t) ==
    /\ variant = "sync"
    /\ task[t].pc = "wait_event"
    /\ read_lock = NoTask
    /\ IF task[t].stream_id \notin DOMAIN events
       THEN /\ Raise(t, "KeyError")
            /\ UNCHANGED read_lock
       ELSE IF events[task[t].stream_id] # <<>>
       THEN /\ Step(t, [pc |-> "event_pop"])
            /\ UNCHANGED read_lock
       ELSE /\ Step(t, [pc |-> "recv_read"])
            /\ read_lock' = t
    /\ UNCHANGED <<proxy_vars, write_vars, variant, state, sent_connection_init, streams, events,
                   init_lock, sem_held, h2_state, socket, peer, requests,
                   running, hist_vars>>

\* async wait_for_event line 163-164: the loop test, without a lock.
AsyncWaitForEvent(t) ==
    /\ variant = "async"
    /\ task[t].pc = "wait_event"
    /\ CanRun(t)
    /\ IF task[t].stream_id \notin DOMAIN events
       THEN /\ Raise(t, "KeyError")
            /\ running' = NoTask
       ELSE IF events[task[t].stream_id] # <<>>
       THEN /\ Step(t, [pc |-> "event_pop"])
            /\ running' = t
       ELSE /\ Step(t, [pc |-> "recv_read"])
            /\ running' = NoTask
    /\ UNCHANGED <<proxy_vars, write_vars, variant, engine_vars, h2_state, socket, peer, requests,
                   hist_vars>>

\* --------------------------------------------------------- receive_events
\* The with block of sync wait_for_event is left: read_lock is released.
Unlocked(t) == IF read_lock = t THEN NoTask ELSE read_lock

\* receive_events line 210: socket.read.  It blocks while the peer has sent
\* nothing, returns b"" once the peer has closed, raises on a closed socket.
SocketRead(t) ==
    /\ task[t].pc = "recv_read"
    /\ CanRun(t)
    /\ IF SocketClosed
       THEN /\ Raise(t, "SocketError")
            /\ read_lock' = Unlocked(t)
            /\ running' = NoTask
            /\ UNCHANGED socket
       ELSE /\ socket.wire # <<>> \/ socket.eof
            /\ Step(t, [pc |-> "recv_feed", rbuf |-> socket.wire,
                        zero_read |-> (socket.wire = <<>>)])
            /\ socket' = [socket EXCEPT !.wire = <<>>]
            /\ running' = KeepsRunning(t)
            /\ UNCHANGED read_lock
    /\ UNCHANGED <<proxy_vars, write_vars, variant, state, sent_connection_init, streams, events,
                   init_lock, sem_held, h2_state, peer, requests, hist_vars>>

\* What h2_state.receive_data does to the codec's outbound side for one event.
H2Apply(e, st) ==
    CASE e.type = "WindowUpdated" /\ e.stream_id = 0 ->
            [st EXCEPT !.outbound_flow_control_window = @ + e.n]
      [] e.type = "WindowUpdated" /\ e.stream_id \in DOMAIN st.window ->
            [st EXCEPT !.window[e.stream_id] = @ + e.n]
      [] e.type = "RemoteSettingsChanged" ->
            [st EXCEPT !.window = [x \in DOMAIN st.window |->
                                st.window[x] + (e.n - st.initial_window_size)],
                       !.initial_window_size = e.n]
      [] e.type = "StreamReset" /\ e.stream_id \in DOMAIN st.local ->
            [st EXCEPT !.local[e.stream_id] = "reset"]
      [] e.type = "ConnectionTerminated" ->
            [st EXCEPT !.closed = TRUE]
      [] OTHER -> st

RECURSIVE H2ReceiveData(_, _)
H2ReceiveData(evs, st) ==
    IF evs = <<>> THEN st
    ELSE H2ReceiveData(Tail(evs), H2Apply(Head(evs), st))

\* history: the events without an error code that the codec produced for
\* the registered streams
RECURSIVE Produce(_, _)
Produce(evs, prod) ==
    IF evs = <<>> THEN prod
    ELSE LET e == Head(evs)
         IN  Produce(Tail(evs),
                     IF e.stream_id \in DOMAIN prod /\ ~HasErrorCode(e)
                     THEN [prod EXCEPT ![e.stream_id] = Append(@, e)]
                     ELSE prod)

\* receive_events line 211: events = h2_state.receive_data(data)
ReceiveData(t) ==
    /\ task[t].pc = "recv_feed"
    /\ CanRun(t)
    /\ h2_state' = H2ReceiveData(task[t].rbuf, h2_state)
    /\ produced' = Produce(task[t].rbuf, produced)
    /\ Step(t, [pc |-> "recv_dispatch"])
    /\ running' = KeepsRunning(t)
    /\ UNCHANGED <<proxy_vars, write_vars, variant, engine_vars, socket, peer, requests, allocated,
                   full_or_closed, overdrawn, delivered>>

\* receive_events line 212-219: the loop over the events.  An event with an
\* error_code raises ProtocolError and ends the loop; an event of a
\* registered stream is appended to its FIFO; any other is dropped.
RECURSIVE Dispatch(_, _)
Dispatch(evs, q) ==
    IF evs = <<>> THEN [events |-> q, raised |-> FALSE]
    ELSE LET e == Head(evs)
         IN  IF HasErrorCode(e) THEN [events |-> q, raised |-> TRUE]
             ELSE Dispatch(Tail(evs),
                           IF e.stream_id \in DOMAIN q
                           THEN [q EXCEPT ![e.stream_id] = Append(@, e)]
                           ELSE q)

\* receive_events line 212-222 and the return to its caller: to the loop test
\* of wait_for_event (sync line 202, made under read_lock; async line 163 after
\* the write has suspended the task), or to wait_for_outgoing_flow line
\* 188-190, which computes the flow again.
ReceiveEvents(t) ==
    /\ task[t].pc = "recv_dispatch"
    /\ CanRun(t)
    /\ running' = NoTask
    /\ LET d == Dispatch(task[t].rbuf, events)
           sid == task[t].stream_id
       IN  /\ events' = d.events
           /\ IF d.raised
              THEN /\ Raise(t, "ProtocolError")
                   /\ read_lock' = Unlocked(t)
              ELSE IF SocketClosed
              THEN /\ Raise(t, "SocketError")
                   /\ read_lock' = Unlocked(t)
              ELSE IF task[t].phase = "flow"
              THEN /\ Step(t, [pc |-> "send_body", rbuf |-> <<>>,
                               phase |-> "headers"])
                   /\ UNCHANGED read_lock
              ELSE IF variant = "async"
              THEN /\ Step(t, [pc |-> "wait_event", rbuf |-> <<>>])
                   /\ UNCHANGED read_lock
              ELSE IF sid \notin DOMAIN d.events
              THEN /\ Raise(t, "KeyError")
                   /\ read_lock' = Unlocked(t)
              ELSE IF d.events[sid] # <<>>
              THEN /\ Step(t, [pc |-> "event_pop", rbuf |-> <<>>])
                   /\ read_lock' = Unlocked(t)
              ELSE /\ Step(t, [pc |-> "recv_read", rbuf |-> <<>>])
                   /\ UNCHANGED read_lock
    /\ UNCHANGED <<proxy_vars, write_vars, variant, state, sent_connection_init, streams, init_lock,
                   sem_held, h2_state, socket, peer, requests, hist_vars>>

\* wait_for_event line 204 (async 165): pop the head of the FIFO, and what the
\* caller does with the event:
\*   receive_response line 346-359: ResponseReceived ends request(), which
\*     returns the response; any other event is skipped;
\*   body_iter line 364-373: DataReceived is acknowledged (line 250-255, a
\*     socket write) and yielded; StreamEnded ends the iteration; any other
\*     event is skipped.
EventPop(t) ==
    /\ task[t].pc = "event_pop"
    /\ CanRun(t)
    /\ LET sid == task[t].stream_id
       IN  IF sid \notin DOMAIN events
           THEN /\ Raise(t, "KeyError")
                /\ running' = NoTask
                /\ UNCHANGED <<events, delivered>>
           ELSE IF events[sid] = <<>>
           THEN /\ Raise(t, "IndexError")
                /\ running' = NoTask
                /\ UNCHANGED <<events, delivered>>
           ELSE LET e == Head(events[sid])
                IN  /\ events' = [events EXCEPT ![sid] = Tail(@)]
                    /\ delivered' = [delivered EXCEPT ![sid] = Append(@, e)]
                    /\ IF task[t].phase = "headers"
                       THEN IF e.type = "ResponseReceived"
                            THEN /\ Step(t, [pc |-> "returned",
                                             phase |-> "body"])
                                 /\ running' = NoTask
                            ELSE /\ Step(t, [pc |-> "wait_event"])
                                 /\ running' = KeepsRunning(t)
                       ELSE IF e.type = "DataReceived"
                            THEN /\ IF SocketClosed
                                    THEN Raise(t, "SocketError")
                                    ELSE Step(t, [pc |-> "returned"])
                                 /\ running' = NoTask
                            ELSE IF e.type = "StreamEnded"
                            THEN /\ Step(t, [pc |-> "exhausted"])
                                 /\ running' = NoTask
                            ELSE /\ Step(t, [pc |-> "wait_event"])
                                 /\ running' = KeepsRunning(t)
    /\ UNCHANGED <<proxy_vars, write_vars, variant, state, sent_connection_init, streams, init_lock,
                   read_lock, sem_held, h2_state, socket, peer, requests,
                   allocated, full_or_closed, overdrawn, produced>>

\* The caller asks the response body for its next chunk: body_iter line
\* 364-365.
IterateBody(t) ==
    /\ task[t].pc = "returned"
    /\ CanRun(t)
    /\ Step(t, [pc |-> "wait_event"])
    /\ running' = KeepsRunning(t)
    /\ UNCHANGED <<proxy_vars, write_vars, variant, engine_vars, h2_state, socket, peer, requests,
                   hist_vars>>

\* ------------------------------------------------------------ close_stream
\* The caller closes the response body, for the first time or again:
\* _response_closed line 375-376, sync close_stream line 258:
\* del self.streams[stream_id]
SyncCloseStream(t) ==
    /\ variant = "sync"
    /\ task[t].pc \in {"returned", "exhausted", "closed"}
    /\ IF task[t].stream_id \notin DOMAIN streams
       THEN /\ RaiseInClose(t, "KeyError")
            /\ UNCHANGED streams
       ELSE /\ streams' = DictDel(streams, task[t].stream_id)
            /\ Step(t, [pc |-> "close_events"])
    /\ UNCHANGED <<proxy_vars, write_vars, variant, state, sent_connection_init, events, init_lock,
                   read_lock, sem_held, h2_state, socket, peer, requests,
                   running, hist_vars>>

\* The state sync close_stream leaves, line 261-265; close() line 168-172.
close_stream_state(registry, st) ==
    IF DOMAIN registry = {}
    THEN IF st = "ACTIVE" THEN "IDLE"
         ELSE IF st = "FULL" THEN "CLOSED" ELSE st
    ELSE st

\* sync close_stream line 259-265: del self.events[stream_id]; with no stream
\* left, ACTIVE becomes IDLE and FULL runs close().
SyncCloseStreamEvents(t) ==
    /\ variant = "sync"
    /\ task[t].pc = "close_events"
    /\ LET sid == task[t].stream_id
       IN  IF sid \notin DOMAIN events
           THEN /\ RaiseInClose(t, "KeyError")
                /\ UNCHANGED <<events, produced, delivered, state, socket,
                               full_or_closed>>
           ELSE /\ events' = DictDel(events, sid)
                /\ produced' = DictDel(produced, sid)
                /\ delivered' = DictDel(delivered, sid)
                /\ Closed(t)
                /\ state' = close_stream_state(streams, state)
                /\ IF state # "CLOSED" /\ state' = "CLOSED"
                   THEN /\ socket' = [socket EXCEPT !.close_calls = @ + 1]
                        /\ full_or_closed' = TRUE
                   ELSE UNCHANGED <<socket, full_or_closed>>
    /\ UNCHANGED <<proxy_vars, write_vars, variant, sent_connection_init, streams, init_lock,
                   read_lock, sem_held, h2_state, peer, requests, running,
                   allocated, overdrawn>>

\* The state async close_stream leaves, line 232-233.
async_close_stream_state(registry, st) ==
    IF DOMAIN registry = {} THEN "IDLE" ELSE st

\* The caller closes the response body, for the first time or again:
\* AsyncHTTP2Stream.close line 342-343
\* and async close_stream line 228-233, which never awaits: both entries are
\* deleted and, with no stream left, the state is set to IDLE.
AsyncCloseStream(t) ==
    /\ variant = "async"
    /\ task[t].pc \in {"returned", "exhausted", "closed"}
    /\ CanRun(t)
    /\ running' = NoTask
    /\ LET sid == task[t].stream_id
       IN  IF sid \notin DOMAIN streams
           THEN /\ RaiseInClose(t, "KeyError")
                /\ UNCHANGED <<streams, events, produced, delivered, state>>
           ELSE IF sid \notin DOMAIN events
           THEN /\ RaiseInClose(t, "KeyError")
                /\ streams' = DictDel(streams, sid)
                /\ UNCHANGED <<events, produced, delivered, state>>
           ELSE /\ streams' = DictDel(streams, sid)
                /\ events' = DictDel(events, sid)
                /\ produced' = DictDel(produced, sid)
                /\ delivered' = DictDel(delivered, sid)
                /\ state' = async_close_stream_state(streams', state)
                /\ Closed(t)
    /\ UNCHANGED <<proxy_vars, write_vars, variant, sent_connection_init, init_lock, read_lock,
                   sem_held, h2_state, socket, peer, requests, allocated,
                   full_or_closed, overdrawn>>

\* ------------------------------------------------- close and mark_as_ready
\* sync close(), line 168-172, called by the pool or a caller at any time.
SyncClose ==
    /\ variant = "sync"
    /\ IF state # "CLOSED"
       THEN /\ state' = "CLOSED"
            /\ socket' = [socket EXCEPT !.close_calls = @ + 1]
            /\ full_or_closed' = TRUE
       ELSE UNCHANGED <<state, socket, full_or_closed>>
    /\ UNCHANGED <<proxy_vars, write_vars, variant, sent_connection_init, streams, events, init_lock,
                   read_lock, sem_held, h2_state, peer, requests, task,
                   running, allocated, overdrawn, produced, delivered>>

\* async close(), line 131-134: asserts that there is a socket (there is one
\* once _connect ran), and closes it; the state is left as it is.
AsyncClose ==
    /\ variant = "async"
    /\ running = NoTask
    /\ h2_state.initiated > 0
    /\ socket.close_calls < MaxSocketClose
    /\ socket' = [socket EXCEPT !.close_calls = @ + 1]
    /\ UNCHANGED <<proxy_vars, write_vars, variant, engine_vars, h2_state, peer, requests, task,
                   running, hist_vars>>

\* sync mark_as_ready(), line 91-93
mark_as_ready ==
    /\ variant = "sync"
    /\ state = "IDLE"
    /\ state' = "READY"
    /\ UNCHANGED <<proxy_vars, write_vars, variant, sent_connection_init, streams, events, init_lock,
                   read_lock, sem_held, h2_state, socket, peer, requests,
                   task, running, hist_vars>>

\* ------------------------------------------ AsyncHTTP2Connection.request
\* async request(), line 65-69: up to the wait for init_lock.
AsyncRequest(t) ==
    /\ variant = "async"
    /\ running = NoTask
    /\ Outside(t)
    /\ requests < MaxRequests
    /\ \E body \in BOOLEAN : EnterRequest(t, body)
    /\ UNCHANGED <<proxy_vars, write_vars, variant, engine_vars, h2_state, socket, peer, running,
                   hist_vars>>

\* async request(), line 69-73: enter init_lock; while the state is PENDING
\* connect and perform the handshake (send_connection_init, line 88-120),
\* whose socket write suspends the task and may raise.
AsyncConnectionInit(t) ==
    /\ variant = "async"
    /\ task[t].pc = "init_lock"
    /\ running = NoTask
    /\ init_lock = NoTask
    /\ IF state # "PENDING"
       THEN /\ init_lock' = t
            /\ Step(t, [pc |-> "alloc"])
            /\ running' = t
            /\ UNCHANGED h2_state
       ELSE /\ h2_state' = [h2_state EXCEPT !.initiated = @ + 1]
            /\ UNCHANGED running
            /\ \/ /\ init_lock' = t
                  /\ Step(t, [pc |-> "alloc"])
               \/ /\ Raise(t, "SocketError")
                  /\ UNCHANGED init_lock
    /\ UNCHANGED <<proxy_vars, write_vars, variant, state, sent_connection_init, streams, events,
                   read_lock, sem_held, socket, peer, requests, hist_vars>>

\* async request(), line 74-76: set ACTIVE, take the stream id (h2's
\* NoAvailableStreamIDError is not caught), leave init_lock.
AsyncAllocate(t) ==
    /\ variant = "async"
    /\ task[t].pc = "alloc"
    /\ CanRun(t)
    /\ state' = "ACTIVE"
    /\ init_lock' = NoTask
    /\ LET id == get_next_available_stream_id
       IN  IF id = NoStream
           THEN /\ Raise(t, "NoAvailableStreamIDError")
                /\ running' = NoTask
                /\ UNCHANGED allocated
           ELSE /\ allocated' = Append(allocated, id)
                /\ Step(t, [pc |-> "register", stream_id |-> id])
                /\ running' = t
    /\ UNCHANGED <<proxy_vars, write_vars, variant, sent_connection_init, streams, events, read_lock,
                   sem_held, h2_state, socket, peer, requests, full_or_closed,
                   overdrawn, produced, delivered>>

\* ------------------------------------------------------------------- peer
\* The peer puts one frame on the wire; h2 turns it into one event when the
\* bytes are fed to it.
PeerCanSend ==
    /\ running = NoTask
    /\ socket.sent < MaxWire
    /\ ~socket.eof
    /\ ~SocketClosed

PeerSend(e) ==
    socket' = [socket EXCEPT !.wire = Append(@, e), !.sent = @ + 1]

\* response HEADERS for a stream whose request HEADERS were written
PeerResponse ==
    /\ PeerCanSend
    /\ \E sid \in DOMAIN peer :
          /\ peer[sid] = "open"
          /\ PeerSend(Event("ResponseReceived", sid, 0))
          /\ peer' = [peer EXCEPT ![sid] = "responded"]
    /\ UNCHANGED <<proxy_vars, write_vars, variant, engine_vars, h2_state, requests, task, running,
                   hist_vars>>

\* one byte of response DATA
PeerData ==
    /\ PeerCanSend
    /\ \E sid \in DOMAIN peer :
          /\ peer[sid] = "responded"
          /\ PeerSend(Event("DataReceived", sid, 1))
    /\ UNCHANGED <<proxy_vars, write_vars, variant, engine_vars, h2_state, peer, requests, task,
                   running, hist_vars>>

\* END_STREAM
PeerStreamEnded ==
    /\ PeerCanSend
    /\ \E sid \in DOMAIN peer :
          /\ peer[sid] = "responded"
          /\ PeerSend(Event("StreamEnded", sid, 0))
          /\ peer' = [peer EXCEPT ![sid] = "done"]
    /\ UNCHANGED <<proxy_vars, write_vars, variant, engine_vars, h2_state, requests, task, running,
                   hist_vars>>

\* RST_STREAM
PeerStreamReset ==
    /\ PeerCanSend
    /\ \E sid \in DOMAIN peer :
          /\ peer[sid] \notin {"done", "reset"}
          /\ PeerSend(Event("StreamReset", sid, 0))
          /\ peer' = [peer EXCEPT ![sid] = "reset"]
    /\ UNCHANGED <<proxy_vars, write_vars, variant, engine_vars, h2_state, requests, task, running,
                   hist_vars>>

\* WINDOW_UPDATE of one byte, for the connection (stream id 0) or a stream
\* the peer has not reset, once request DATA has used some of that window
PeerWindowUpdate ==
    /\ PeerCanSend
    /\ \E sid \in {0} \cup DOMAIN peer :
          /\ sid # 0 => peer[sid] # "reset"
          /\ IF sid = 0
             THEN h2_state.outbound_flow_control_window < InitialWindow
             ELSE h2_state.window[sid] < h2_state.initial_window_size
          /\ PeerSend(Event("WindowUpdated", sid, 1))
    /\ UNCHANGED <<proxy_vars, write_vars, variant, engine_vars, h2_state, peer, requests, task,
                   running, hist_vars>>

\* SETTINGS that lowers SETTINGS_INITIAL_WINDOW_SIZE to 0, sent at most once
PeerSettings ==
    /\ PeerCanSend
    /\ h2_state.initiated > 0
    /\ h2_state.initial_window_size = InitialWindow
    /\ \A k \in 1..Len(socket.wire) :
          socket.wire[k].type # "RemoteSettingsChanged"
    /\ \A t \in Tasks : \A k \in 1..Len(task[t].rbuf) :
          task[t].rbuf[k].type # "RemoteSettingsChanged"
    /\ PeerSend(Event("RemoteSettingsChanged", 0, 0))
    /\ UNCHANGED <<proxy_vars, write_vars, variant, engine_vars, h2_state, peer, requests, task,
                   running, hist_vars>>

\* GOAWAY, after which the peer closes its side
PeerGoAway ==
    /\ PeerCanSend
    /\ h2_state.initiated > 0
    /\ socket' = [socket EXCEPT
                     !.wire = Append(@, Event("ConnectionTerminated", 0, 0)),
                     !.sent = @ + 1, !.eof = TRUE]
    /\ UNCHANGED <<proxy_vars, write_vars, variant, engine_vars, h2_state, peer, requests, task,
                   running, hist_vars>>

\* the peer closes its side: reads return b"" once the wire is drained
PeerClose ==
    /\ running = NoTask
    /\ h2_state.initiated > 0
    /\ ~socket.eof
    /\ ~SocketClosed
    /\ socket' = [socket EXCEPT !.eof = TRUE]
    /\ UNCHANGED <<proxy_vars, write_vars, variant, engine_vars, h2_state, peer, requests, task,
                   running, hist_vars>>

\* ------------------------------------------------------------ the system
\* The steps of the callers' request() calls and body iterations.
TaskStep(t) ==
    \/ SyncConnectionInit(t)
    \/ SyncAllocate(t)
    \/ AsyncConnectionInit(t)
    \/ AsyncAllocate(t)
    \/ RegisterStream(t)
    \/ RegisterEvents(t)
    \/ SendHeaders(t)
    \/ WaitForOutgoingFlow(t)
    \/ SendData(t)
    \/ EndStream(t)
    \/ SyncWaitForEvent(t)
    \/ AsyncWaitForEvent(t)
    \/ SocketRead(t)
    \/ ReceiveData(t)
    \/ ReceiveEvents(t)
    \/ EventPop(t)
    \/ SyncCloseStreamEvents(t)

\* What the callers decide to do: start a request, read on, close the body.
CallerStep(t) ==
    \/ SyncRequest(t)
    \/ AsyncRequest(t)
    \/ IterateBody(t)
    \/ SyncCloseStream(t)
    \/ AsyncCloseStream(t)

PeerStep ==
    \/ PeerResponse
    \/ PeerData
    \/ PeerStreamEnded
    \/ PeerStreamReset
    \/ PeerWindowUpdate
    \/ PeerSettings
    \/ PeerGoAway
    \/ PeerClose

Next ==
    \/ \E t \in Tasks : TaskStep(t) \/ CallerStep(t)
    \/ SyncClose
    \/ AsyncClose
    \/ mark_as_ready
    \/ PeerStep

Spec == Init /\ [][Next]_vars

\* ======================================================= AsyncHTTPProxy
\* A URL is (scheme, host, port, path); the port is taken as part of the host
\* and the path plays no part.  url[:3], the origin, is (scheme, host).
Schemes == {"http", "https"}
Hosts == {"proxy", "a"}
Origins == Schemes \X Hosts
Modes == {"DEFAULT", "FORWARD_ONLY", "TUNNEL_ONLY"}
\* status codes of the proxy's answer to CONNECT, around the 2xx range
StatusCodes == {199, 200, 299, 300}
\* the reason phrase that comes with a status code
ReasonPhrase(code) == IF code \in {200, 299} THEN "OK" ELSE "Refused"

\* The dispatch test without its mode condition on http URLs.
UsesForwardIgnoringMode(mode, scheme) ==
    scheme = "http" \/ mode = "FORWARD_ONLY"

\* request() line 59-61: the test that selects _forward_request
UsesForward(mode, scheme) ==
    (mode = "DEFAULT" /\ scheme = "http") \/ mode = "FORWARD_ONLY"

\* A connection object just created (AsyncHTTP11Connection(origin=...), line
\* 88-90 and 128-130).
\*   origin       connection.origin
\*   busy         a request was sent on it whose response is not closed yet
\*   connects     CONNECT requests sent on it
\*   established  2xx answers to CONNECT received on it
\*   tls          _start_tls calls completed on it
\*   body_read    the CONNECT response body was read and its stream closed
\*   requests     user requests sent on it
NewConnection(origin) ==
    [origin |-> origin, busy |-> TRUE, connects |-> 0, established |-> 0,
     tls |-> 0, body_read |-> FALSE, requests |-> 0]

\* the connections the pool holds for an origin
ConnectionsFor(origin) ==
    IF origin \in DOMAIN connections THEN connections[origin] ELSE {}

PStep(p, c) == ptask' = [ptask EXCEPT ![p] = Upd(@, c)]
\* An exception leaves request(): the caller keeps the error, and the model
\* the connection and the status it was raised for.
PRaise(p, kind) ==
    ptask' = [ptask EXCEPT ![p] = Upd(IdleProxyTask,
                 [pc |-> "failed", err |-> kind,
                  connection |-> @.connection, status |-> @.status])]

\* request() line 49-70: normalise the URL and select the path; both paths
\* begin by asking the pool for a connection: the forward path for the proxy's
\* origin (line 84), the tunnel path for the URL's origin (line 124).  The
\* callers are interchangeable: the first call is taken to be p1's.
ProxyRequest(p) ==
    /\ ptask[p].pc \in {"idle", "failed"}
    /\ proxy_requests = 0 => p = "p1"
    /\ proxy_requests < MaxProxyRequests
    /\ proxy_requests' = proxy_requests + 1
    /\ \E url \in Origins :
          LET forward == UsesForward(proxy_mode, url[1])
          IN  ptask' = [ptask EXCEPT ![p] = Upd(IdleProxyTask,
                  [pc |-> "get_connection", scheme |-> url[1],
                   path |-> IF forward THEN "forward" ELSE "tunnel",
                   origin |-> IF forward THEN proxy_origin ELSE url])]
    /\ UNCHANGED <<h2_vars, write_vars, proxy_mode, proxy_origin, connections, conn>>

\* line 85 / 125: connection = await self._get_connection_from_pool(origin).
\* The pool hands out a connection it holds for the origin that is not in
\* use, and None when it has none; with None, line 87-91 / 127-131 create a
\* connection and wait for thread_lock.
GetConnectionFromPool(p) ==
    /\ ptask[p].pc = "get_connection"
    /\ LET idle == {c \in ConnectionsFor(ptask[p].origin) : ~conn[c].busy}
       IN  IF idle # {}
           THEN \E c \in idle :
                   /\ conn' = [conn EXCEPT ![c].busy = TRUE]
                   /\ PStep(p, [pc |-> "request", connection |-> c])
           ELSE /\ Len(conn) < MaxConnections
                /\ conn' = Append(conn, NewConnection(ptask[p].origin))
                /\ PStep(p, [pc |-> "register",
                             connection |-> Len(conn) + 1])
    /\ UNCHANGED <<h2_vars, write_vars, proxy_mode, proxy_origin, connections,
                   proxy_requests>>

\* line 91-93 / 131-133: under thread_lock, add the new connection to the
\* pool; the forward path goes on to the request (line 104), the tunnel path
\* to CONNECT (line 142).
RegisterConnection(p) ==
    /\ ptask[p].pc = "register"
    /\ connections' = DictSet(connections, ptask[p].origin,
                         ConnectionsFor(ptask[p].origin)
                             \cup {ptask[p].connection})
    /\ PStep(p, [pc |-> IF ptask[p].path = "tunnel" THEN "connect"
                        ELSE "request"])
    /\ UNCHANGED <<h2_vars, write_vars, proxy_mode, proxy_origin, conn, proxy_requests>>

\* The status test with its upper limit off by one.
IsProxyErrorAbove300(proxy_status_code) ==
    proxy_status_code < 200 \/ proxy_status_code > 300

\* The status test of line 154.
IsProxyError(proxy_status_code) ==
    proxy_status_code < 200 \/ proxy_status_code > 299

\* line 142-154 and 166: the CONNECT request and its answer; read_body(
\* proxy_stream) at line 150 makes a coroutine that is never awaited, so the
\* body is not read and its stream not closed; then the status test, which
\* leads to the wait for thread_lock (line 155) or to _start_tls (line 166).
\* The request may raise instead.
ConnectRequest(p) ==
    /\ ptask[p].pc = "connect"
    /\ LET c == ptask[p].connection
       IN  \/ \E code \in StatusCodes :
                /\ conn' = [conn EXCEPT
                       ![c].connects = @ + 1,
                       ![c].established =
                           IF code \in 200..299 THEN @ + 1 ELSE @]
                /\ PStep(p, [status |-> code,
                             pc |-> IF IsProxyError(code) THEN "remove"
                                    ELSE "start_tls"])
           \/ /\ conn' = [conn EXCEPT ![c].connects = @ + 1]
              /\ PRaise(p, "ConnectError")
    /\ UNCHANGED <<h2_vars, write_vars, proxy_mode, proxy_origin, connections,
                   proxy_requests>>

\* line 155-163: under thread_lock remove the connection from the pool, and
\* its origin when no connection is left for it; raise ProxyError with the
\* message "%d %s" % (code, reason).
RemoveConnection(p) ==
    /\ ptask[p].pc = "remove"
    /\ LET c == ptask[p].connection
           origin == conn[c].origin
           left == ConnectionsFor(origin) \ {c}
       IN  IF origin \notin DOMAIN connections \/ c \notin connections[origin]
           THEN /\ PRaise(p, "KeyError")
                /\ UNCHANGED connections
           ELSE /\ connections' = IF left = {} THEN DictDel(connections, origin)
                                  ELSE DictSet(connections, origin, left)
                /\ ptask' = [ptask EXCEPT ![p] = Upd(IdleProxyTask,
                       [pc |-> "failed", err |-> "ProxyError",
                        connection |-> c, status |-> @.status,
                        message |-> <<@.status, ReasonPhrase(@.status)>>])]
    /\ UNCHANGED <<h2_vars, write_vars, proxy_mode, proxy_origin, conn, proxy_requests>>

\* line 166: await connection._start_tls(target, timeout), which may raise
StartTls(p) ==
    /\ ptask[p].pc = "start_tls"
    /\ \/ /\ conn' = [conn EXCEPT ![ptask[p].connection].tls = @ + 1]
          /\ PStep(p, [pc |-> "request"])
       \/ /\ PRaise(p, "ConnectError")
          /\ UNCHANGED conn
    /\ UNCHANGED <<h2_vars, write_vars, proxy_mode, proxy_origin, connections,
                   proxy_requests>>

\* line 104-110 / 170-176: the user's request on the connection, and its
\* response wrapped for the pool; the request may raise.
ConnectionRequest(p) ==
    /\ ptask[p].pc = "request"
    /\ conn' = [conn EXCEPT ![ptask[p].connection].requests = @ + 1]
    /\ \/ PStep(p, [pc |-> "returned"])
       \/ PRaise(p, "ConnectError")
    /\ UNCHANGED <<h2_vars, write_vars, proxy_mode, proxy_origin, connections,
                   proxy_requests>>

\* The caller closes the response body: the pool's _response_closed
\* callback (line 108 / 174) keeps the connection for reuse, or drops it from
\* the pool when it is no longer usable.
ResponseClosed(p) ==
    /\ ptask[p].pc = "returned"
    /\ LET c == ptask[p].connection
           origin == conn[c].origin
           left == ConnectionsFor(origin) \ {c}
       IN  \/ /\ conn' = [conn EXCEPT ![c].busy = FALSE]
              /\ UNCHANGED connections
           \/ /\ c \in ConnectionsFor(origin)
              /\ connections' = IF left = {} THEN DictDel(connections, origin)
                                ELSE DictSet(connections, origin, left)
              /\ UNCHANGED conn
    /\ ptask' = [ptask EXCEPT ![p] = IdleProxyTask]
    /\ UNCHANGED <<h2_vars, write_vars, proxy_mode, proxy_origin, proxy_requests>>

ProxyStep(p) ==
    \/ ProxyRequest(p)
    \/ GetConnectionFromPool(p)
    \/ RegisterConnection(p)
    \/ ConnectRequest(p)
    \/ RemoveConnection(p)
    \/ StartTls(p)
    \/ ConnectionRequest(p)
    \/ ResponseClosed(p)

ProxyNext == \E p \in ProxyTasks : ProxyStep(p)

\* A proxy dispatcher of any mode, for a proxy reached over http or https;
\* the engine behind it is not exercised.
ProxyInit ==
    /\ EngineInit
    /\ variant = "async"
    /\ h2_state.HIGHEST_ALLOWED_STREAM_ID = MaxStreamId
    /\ \E scheme \in Schemes, mode \in Modes :
          ProxyConstructed(<<scheme, "proxy">>, mode)
    /\ WriteConstructed

ProxySpec == ProxyInit /\ [][ProxyNext]_vars

\* ================================================================ write path
\* The same engine, followed at the grain of its socket writes: a send_* call
\* is the codec call, h2_state.data_to_send() and socket.write, one after the
\* other, and socket.write takes time.  Flow control, the FIFOs and the
\* registry are left to the specification above; the peer's SETTINGS, DATA
\* and RST_STREAM are what a socket.read may return.

\* What one socket.read may return, as the frames in it.
Batches == {<<"SETTINGS">>, <<"DATA">>, <<"SETTINGS", "RST_STREAM">>}

\* The calls that send for a stream: sync line 224-255.
SendOps == {"send_headers", "send_data", "end_stream",
            "acknowledge_received_data"}

\* What the write path never touches.
other_vars == <<variant, streams, events, sem_held, h2_state, socket, peer,
                requests, task, hist_vars, proxy_vars>>
lock_vars == <<state, sent_connection_init, init_lock, read_lock>>

WStep(t, c) == wtask' = [wtask EXCEPT ![t] = Upd(@, c)]

\* An exception leaves the call: no handler in the engine.
WRaise(t, kind) ==
    wtask' = [wtask EXCEPT ![t] = Upd(@, [pc |-> "failed", err |-> kind])]

Range(q) == {q[i] : i \in 1..Len(q)}

\* h2: the stream ids HEADERS were generated for, and the streams whose
\* sending side the codec has ended.
HeaderIds ==
    {generated[i].stream_id :
        i \in {j \in 1..Len(generated) : generated[j].op = "send_headers"}}
LocalClosed(sid) ==
    \E i \in 1..Len(generated) :
        generated[i].stream_id = sid /\ generated[i].end

\* h2_state.get_next_available_stream_id(): the next odd id above the
\* highest id HEADERS were sent on.
NextStreamId ==
    IF HeaderIds = {} THEN 1
    ELSE (CHOOSE m \in HeaderIds : \A x \in HeaderIds : x <= m) + 2

\* request() is called, with or without a body: sync line 95-105, async
\* line 57-69.
WriterRequest(t) ==
    /\ wtask[t].pc = "idle"
    /\ running = NoTask
    /\ (\A u \in Tasks : wtask[u].pc = "idle") => t = "t1"
    /\ \E body \in BOOLEAN :
          WStep(t, [pc |-> "init_lock", has_body |-> body])
    /\ UNCHANGED <<other_vars, lock_vars, running, codec_vars, sock_vars>>

\* sync line 107-108, async line 69-70: enter init_lock; the first caller
\* goes on to send_connection_init.
WriterInitLock(t) ==
    /\ wtask[t].pc = "init_lock"
    /\ CanRun(t)
    /\ init_lock = NoTask
    /\ init_lock' = t
    /\ LET first == IF variant = "sync" THEN ~sent_connection_init
                    ELSE state = "PENDING"
       IN  WStep(t, IF first
                    THEN [pc |-> "codec", op |-> "connection_init"]
                    ELSE [pc |-> "alloc"])
    /\ running' = KeepsRunning(t)
    /\ UNCHANGED <<other_vars, state, sent_connection_init, read_lock,
                   codec_vars, sock_vars>>

\* sync line 114-125, async line 74-78: take the stream id, leave init_lock
\* and go on to send_headers (Stream.request line 281-291).
WriterAllocate(t) ==
    /\ wtask[t].pc = "alloc"
    /\ CanRun(t)
    /\ state' = "ACTIVE"
    /\ init_lock' = NoTask
    /\ WStep(t, [pc |-> "codec", op |-> "send_headers",
                 stream_id |-> NextStreamId])
    /\ running' = KeepsRunning(t)
    /\ UNCHANGED <<other_vars, sent_connection_init, read_lock, codec_vars,
                   sock_vars>>

\* The codec call that opens send_connection_init (line 157-158) or a send_*
\* (line 231-232, 239, 246, 253): its output is appended to the codec's
\* buffer.  h2 refuses a call on a stream whose sending side is ended, and
\* HEADERS without end_stream on a stream that has begun.
H2Call(t) ==
    /\ wtask[t].pc = "codec"
    /\ CanRun(t)
    /\ LET op == wtask[t].op
           sid == IF op = "connection_init" THEN NoStream
                  ELSE wtask[t].stream_id
           end == \/ op = "send_headers" /\ ~wtask[t].has_body
                  \/ op = "end_stream"
           refused == /\ op \in {"send_headers", "send_data", "end_stream"}
                      /\ \/ LocalClosed(sid)
                         \/ op = "send_headers" /\ sid \in HeaderIds /\ ~end
           n == Len(generated) + 1
       IN  IF refused
           THEN /\ WRaise(t, "H2Error")
                /\ running' = NoTask
                /\ UNCHANGED codec_vars
           ELSE /\ generated' = Append(generated,
                                  [op |-> op, stream_id |-> sid, end |-> end])
                /\ outbuf' = Append(outbuf, n)
                /\ WStep(t, [pc |-> "drain", mine |-> {n}])
                /\ running' = KeepsRunning(t)
    /\ UNCHANGED <<other_vars, lock_vars, sock_vars>>

\* data_to_send = self.h2_state.data_to_send(): line 158, 220, 233, 240, 247,
\* 254.  The call returns all the codec has buffered and empties the buffer.
DataToSend(t) ==
    /\ wtask[t].pc = "drain"
    /\ CanRun(t)
    /\ WStep(t, [pc |-> "write", payload |-> outbuf])
    /\ outbuf' = <<>>
    /\ running' = KeepsRunning(t)
    /\ UNCHANGED <<other_vars, lock_vars, generated, sock_vars>>

\* self.socket.write(data_to_send, timeout) is called: line 159, 221, 234,
\* 241, 248, 255.  The caller blocks (sync) or is suspended (async) in it.
SocketWriteBegins(t) ==
    /\ wtask[t].pc = "write"
    /\ CanRun(t)
    /\ writes' = writes \o wtask[t].payload
    /\ inwrite' = inwrite \cup {t}
    /\ WStep(t, [pc |-> "writing"])
    /\ running' = NoTask
    /\ UNCHANGED <<other_vars, lock_vars, codec_vars, reads>>

\* Where a call goes once its socket.write has returned: request() line
\* 112, Stream.request line 292-296, send_body line 336-338, body_iter line
\* 366-371, wait_for_event line 202-204.
AfterWrite(t) ==
    LET op == wtask[t].op
    IN  IF op = "connection_init" THEN [pc |-> "alloc"]
        ELSE IF op = "send_headers" /\ wtask[t].has_body
        THEN [pc |-> "codec", op |-> "send_data"]
        ELSE IF op = "send_data"
        THEN [pc |-> "codec", op |-> "end_stream"]
        ELSE IF op = "receive_events"
                /\ "DATA" \in Range(wtask[t].batch)
        THEN [pc |-> "codec", op |-> "acknowledge_received_data"]
        ELSE [pc |-> "wait_event"]

\* socket.write returns and the send_* or receive_events call with it.
SocketWriteReturns(t) ==
    /\ wtask[t].pc = "writing"
    /\ running = NoTask
    /\ inwrite' = inwrite \ {t}
    /\ WStep(t, AfterWrite(t) @@ [payload |-> <<>>, batch |-> <<>>])
    /\ sent_connection_init' = IF variant = "sync"
                                  /\ wtask[t].op = "connection_init"
                               THEN TRUE ELSE sent_connection_init
    /\ read_lock' = IF wtask[t].op = "receive_events" /\ read_lock = t
                    THEN NoTask ELSE read_lock
    /\ running' = KeepsRunning(t)
    /\ UNCHANGED <<other_vars, state, init_lock, codec_vars, writes, reads>>

\* wait_for_event finds its FIFO empty and calls receive_events, which
\* calls socket.read: sync line 201-203 (under read_lock) and 210, async
\* line 163-164 and 173.
SocketReadBegins(t) ==
    /\ wtask[t].pc = "wait_event"
    /\ CanRun(t)
    /\ reads < MaxReads
    /\ variant = "sync" => read_lock = NoTask
    /\ read_lock' = IF variant = "sync" THEN t ELSE read_lock
    /\ reads' = reads + 1
    /\ WStep(t, [pc |-> "reading", op |-> "receive_events", mine |-> {}])
    /\ running' = NoTask
    /\ UNCHANGED <<other_vars, state, sent_connection_init, init_lock,
                   codec_vars, writes, inwrite>>

\* socket.read returns and the bytes are fed to the codec, line 210-211: h2
\* generates the acknowledgement of each SETTINGS frame.
FeedCodec(t) ==
    /\ wtask[t].pc = "reading"
    /\ running = NoTask
    /\ \E batch \in Batches :
          LET n == Len(generated) + 1
          IN  IF "SETTINGS" \in Range(batch)
              THEN /\ generated' = Append(generated,
                                     [op |-> "receive_data",
                                      stream_id |-> NoStream, end |-> FALSE])
                   /\ outbuf' = Append(outbuf, n)
                   /\ WStep(t, [pc |-> "dispatch", batch |-> batch,
                                mine |-> {n}])
              ELSE /\ WStep(t, [pc |-> "dispatch", batch |-> batch])
                   /\ UNCHANGED codec_vars
    /\ running' = KeepsRunning(t)
    /\ UNCHANGED <<other_vars, lock_vars, sock_vars>>

\* The for loop of receive_events, line 212-218: an event with an error_code
\* raises ProtocolError out of receive_events and of the with block of
\* wait_for_event; else the loop ends and line 220 follows.
DispatchBatch(t) ==
    /\ wtask[t].pc = "dispatch"
    /\ CanRun(t)
    /\ IF "RST_STREAM" \in Range(wtask[t].batch)
       THEN /\ WRaise(t, "ProtocolError")
            /\ read_lock' = IF read_lock = t THEN NoTask ELSE read_lock
            /\ running' = NoTask
       ELSE /\ WStep(t, [pc |-> "drain"])
            /\ running' = KeepsRunning(t)
            /\ UNCHANGED read_lock
    /\ UNCHANGED <<other_vars, state, sent_connection_init, init_lock,
                   codec_vars, sock_vars>>

\* wait_for_event finds the event that ends the caller's wait in its FIFO,
\* line 204: the response is complete.
WriterDone(t) ==
    /\ wtask[t].pc = "wait_event"
    /\ CanRun(t)
    /\ WStep(t, [pc |-> "done"])
    /\ running' = NoTask
    /\ UNCHANGED <<other_vars, lock_vars, codec_vars, sock_vars>>

WriterStep(t) ==
    \/ WriterRequest(t)
    \/ WriterInitLock(t)
    \/ WriterAllocate(t)
    \/ H2Call(t)
    \/ DataToSend(t)
    \/ SocketWriteBegins(t)
    \/ SocketWriteReturns(t)
    \/ SocketReadBegins(t)
    \/ FeedCodec(t)
    \/ DispatchBatch(t)
    \/ WriterDone(t)

WriteNext == \E t \in Tasks : WriterStep(t)

\* Either engine, with every stream id available.
WriteInit ==
    /\ Init
    /\ h2_state.HIGHEST_ALLOWED_STREAM_ID = MaxStreamId

WriteSpec == WriteInit /\ [][WriteNext]_vars

\* ------------------------------------------------------------- properties
\* C1: for any interleaving of concurrent request() calls on one engine, no
\* two calls obtain the same stream id and the ids are handed out in strictly
\* increasing order.
C1_StreamIdsStrictlyIncreasing ==
    \A i, j \in 1..Len(allocated) : i < j => allocated[i] < allocated[j]

\* C2: the state is ACTIVE, never IDLE or READY, whenever at least one stream
\* is registered, and it is IDLE only while the registry is empty.
C2_ActiveWhileStreamsRegistered ==
    /\ DOMAIN streams # {} => state \notin {"IDLE", "READY"}
    /\ state = "IDLE" => DOMAIN streams = {}

\* C3: once the engine state is CLOSED it never changes again, whatever
\* request(), close_stream(), mark_as_ready() or close() calls follow.
C3_ClosedIsTerminal ==
    [][state = "CLOSED" => state' = "CLOSED"]_vars

\* C4: close() closes the socket and leaves the engine in state CLOSED, and
\* socket.close is invoked at most once per engine, on both variants: every
\* step that calls socket.close is the first to do so and ends in CLOSED.
C4_CloseOnceAndClosed ==
    [][socket'.close_calls # socket.close_calls
          => socket.close_calls = 0 /\ state' = "CLOSED"]_vars

\* C5: every send_data call reaches the codec with a chunk no longer than
\* min(local_flow_control_window(sid), max_outbound_frame_size) as evaluated
\* at that moment, and none is made for a stream whose flow is not positive.
C5_SendDataWithinFlow ==
    ~overdrawn

\* Some receive_events call is between h2_state.receive_data and its loop
\* over the events.
Dispatching == \E t \in Tasks : task[t].pc = "recv_dispatch"

\* C6: for every live stream, the events wait_for_event has returned followed
\* by those still in its FIFO are exactly the events the codec produced for
\* it, in the same order, none lost, duplicated or handed to another stream.
\* Stated for the runs in which every stream id was handed out once, so that
\* a stream is the stream of one request() call.
C6_EventsDeliveredAsProduced ==
    (~Dispatching /\ C1_StreamIdsStrictlyIncreasing) =>
        \A sid \in DOMAIN events :
            produced[sid] = delivered[sid] \o events[sid]

\* The response headers of t's stream are in its FIFO while t's request()
\* is waiting for them.
ResponseQueued(t) ==
    /\ task[t].pc \in {"wait_event", "recv_read"}
    /\ task[t].phase = "headers"
    /\ task[t].stream_id \in DOMAIN events
    /\ \E k \in 1..Len(events[task[t].stream_id]) :
          events[task[t].stream_id][k].type = "ResponseReceived"

\* C7: request() returns once its own stream's response headers have
\* arrived, whether or not anything else ever arrives from the peer: while a
\* caller's response headers are queued, the engine is never left with no
\* caller able to take a step (a state in which, with a silent peer, the
\* caller stays blocked forever).
C7_QueuedResponseIsNotBlocked ==
    \A t \in Tasks :
        ResponseQueued(t) => \E u \in Tasks : ENABLED TaskStep(u)

\* C8: after a request() call has failed, its stream id is in neither
\* streams nor events.
C8_FailedRequestIsUnregistered ==
    \A t \in Tasks :
        task[t].pc = "failed" =>
            /\ task[t].stream_id \notin DOMAIN streams
            /\ task[t].stream_id \notin DOMAIN events

\* C9: when receive_events raises ProtocolError for an event that carries an
\* error code, the engine state becomes CLOSED.
C9_ProtocolErrorClosesEngine ==
    [][\A t \in Tasks :
          (task[t].pc = "recv_dispatch" /\ task'[t].err = "ProtocolError")
              => state' = "CLOSED"]_vars

\* C10: a socket read that returns zero bytes makes receive_events fail with
\* ProtocolError, so the caller ends with that error instead of reading the
\* socket again.
C10_ZeroReadRaisesProtocolError ==
    [][\A t \in Tasks :
          (/\ task[t].pc = "recv_dispatch"
           /\ task[t].zero_read
           /\ task'[t].pc # "recv_dispatch")
              => task'[t].pc = "failed" /\ task'[t].err = "ProtocolError"]_vars

\* C11: when the codec has no stream id left, request() moves the engine to
\* FULL and fails with NewConnectionRequired, adding no entry to streams or
\* events, writing nothing, and holding no semaphore slot afterwards, in both
\* variants.
C11_NoStreamIdMeansFull ==
    [][\A t \in Tasks :
          (/\ task[t].pc = "alloc"
           /\ task'[t].pc # "alloc"
           /\ get_next_available_stream_id = NoStream)
              => /\ state' = "FULL"
                 /\ task'[t].pc = "failed"
                 /\ task'[t].err = "NewConnectionRequired"
                 /\ streams' = streams
                 /\ events' = events
                 /\ socket' = socket
                 /\ sem_held' = IF variant = "sync" THEN sem_held - 1
                                ELSE 0]_vars

\* Some close_stream call has deleted its stream and not yet looked at the
\* state.
ClosingStream == \E t \in Tasks : task[t].pc = "close_events"

\* C12: the engine never remains FULL with an empty registry, whether the
\* last stream was closed after it became FULL or it became FULL while no
\* stream was open.
C12_FullWithoutStreamsCloses ==
    (state = "FULL" /\ DOMAIN streams = {}) => ClosingStream

\* Every connection object created so far.
Conns == 1..Len(conn)

\* C13: on the tunnel path the user's request is sent on a connection only
\* after that connection's CONNECT was answered 2xx and its transport was
\* upgraded to TLS, and CONNECT and the upgrade happen at most once per
\* connection.
C13_UserRequestOnlyThroughTunnel ==
    [][/\ \A p \in ProxyTasks :
             (/\ ptask[p].pc = "request"
              /\ ptask'[p].pc # "request"
              /\ ptask[p].path = "tunnel")
                 => /\ conn[ptask[p].connection].established = 1
                    /\ conn[ptask[p].connection].tls = 1
       /\ \A c \in 1..Len(conn') :
             conn'[c].connects <= 1 /\ conn'[c].tls <= 1]_vars

\* The pool holds connection c for some origin.
InPool(c) == \E o \in DOMAIN connections : c \in connections[o]

\* C14, as a state predicate: a CONNECT status outside 200..299 leads to
\* nothing but the removal and the failure, and a tunnel request that failed
\* with ProxyError has such a status, carries the message "code reason", and
\* its connection is not in the pool, was never upgraded and never carried a
\* user request; no origin is left in the pool without a connection.
ProxyErrorState ==
    /\ \A p \in ProxyTasks :
          /\ (ptask[p].status # 0 /\ ptask[p].status \notin 200..299)
                => /\ ptask[p].pc \in {"remove", "failed"}
                   /\ ptask[p].pc = "failed" => ptask[p].err = "ProxyError"
          /\ ptask[p].err = "ProxyError"
                => /\ ptask[p].status \notin 200..299
                   /\ ptask[p].message = <<ptask[p].status,
                                           ReasonPhrase(ptask[p].status)>>
                   /\ ~InPool(ptask[p].connection)
                   /\ conn[ptask[p].connection].tls = 0
                   /\ conn[ptask[p].connection].requests = 0
    /\ \A o \in DOMAIN connections : connections[o] # {}

\* C14: when CONNECT returns a status outside 200..299 the tunnel request
\* fails with ProxyError("code reason"); at that moment its connection is out
\* of the pool, the origin is gone if no connection is left for it, no TLS
\* upgrade and no user request was made on the connection, and the other
\* connections of the origin stay in the pool.
C14_ProxyErrorRemovesConnection ==
    [][/\ ProxyErrorState'
       /\ \A p \in ProxyTasks :
             (ptask[p].pc = "remove" /\ ptask'[p].pc # "remove")
                 => /\ ptask'[p].err = "ProxyError"
                    /\ \A o \in DOMAIN connections :
                          connections[o] \ {ptask[p].connection}
                              = IF o \in DOMAIN connections'
                                THEN connections'[o] ELSE {}]_vars

\* C14 witness: a tunnel request has failed with ProxyError while another
\* connection of the same origin is still in the pool.
C14_Witness ==
    \E p \in ProxyTasks :
        /\ ptask[p].err = "ProxyError"
        /\ ConnectionsFor(conn[ptask[p].connection].origin) # {}

\* C15: on a newly created tunnel connection the CONNECT response body has
\* been read and its stream closed when the status code is evaluated.
C15_BodyDrainedBeforeStatus ==
    \A p \in ProxyTasks :
        ptask[p].status # 0 => conn[ptask[p].connection].body_read

\* C16: a request takes the forward path exactly when the mode is
\* FORWARD_ONLY, or DEFAULT with an http URL, and the tunnel path otherwise;
\* a request on the forward path looks for a connection to the proxy and
\* never takes a step of the tunnel path.
C16_DispatchRule ==
    \A p \in ProxyTasks :
        ptask[p].path # "none" =>
            /\ ptask[p].path \in {"forward", "tunnel"}
            /\ ptask[p].path = "forward"
                  <=> \/ proxy_mode = "FORWARD_ONLY"
                      \/ proxy_mode = "DEFAULT" /\ ptask[p].scheme = "http"
            /\ ptask[p].path = "forward"
                  => /\ ptask[p].origin = proxy_origin
                     /\ ptask[p].pc \notin {"connect", "remove", "start_tls"}
                     /\ ptask[p].status = 0

\* C16 witness: under DEFAULT one caller's http request is on the forward
\* path while another caller's https request is on the tunnel path.
C16_Witness ==
    /\ proxy_mode = "DEFAULT"
    /\ \E p, q \in ProxyTasks :
          /\ ptask[p].path = "forward" /\ ptask[p].scheme = "http"
          /\ ptask[p].pc = "returned"
          /\ ptask[q].path = "tunnel" /\ ptask[q].scheme = "https"
          /\ ptask[q].pc = "start_tls"

\* C17: while stream ids are unique, every chunk send_body passes to send_data is non-empty and is taken
\* off the front of what is left of the body, end_stream follows only once
\* nothing is left, and a request without a body sends neither DATA nor a
\* separate end_stream.
C17_BodySentInNonEmptyChunks ==
    [][C1_StreamIdsStrictlyIncreasing => \A t \in Tasks :
          /\ (task[t].pc = "send_data" /\ task'[t].pc # "send_data")
                => LET chunk == SliceLen(task[t].data,
                                         Min(task[t].data, task[t].max_flow))
                   IN  /\ chunk > 0
                       /\ task'[t].pc \in {"send_body", "end_stream"}
                             => task'[t].data = task[t].data - chunk
          /\ task'[t].pc = "end_stream" => task'[t].data = 0
          /\ task'[t].pc \in {"send_body", "send_data", "end_stream"}
                => task'[t].has_body]_vars

\* C18: closing a response body that is already closed changes nothing and
\* raises nothing.
C18_SecondCloseIsNoOp ==
    [][\A t \in Tasks :
          (task[t].pc = "closed" /\ task'[t].pc \notin {"closed", "init_lock"})
              => FALSE]_vars

\* C19: whenever another task can run, the stream registry and the FIFO
\* registry have the same keys.
C19_RegistriesHaveSameKeys ==
    (variant = "sync" \/ running = NoTask) => DOMAIN streams = DOMAIN events

\* The tasks that have bytes from socket.read and have not finished handing
\* their events out.
Receivers == {t \in Tasks : task[t].pc \in {"recv_feed", "recv_dispatch"}}

\* C20: at most one task at a time is between its socket.read and the end of
\* receive_events, and a task that appends an event to a FIFO holds
\* read_lock.
C20_OneReceiverUnderReadLock ==
    [][/\ Cardinality(Receivers') <= 1
       /\ \A t \in Tasks :
             (task[t].pc = "recv_dispatch" /\ task'[t].pc # "recv_dispatch"
                 /\ events' # events) => read_lock = t]_vars

\* C23: the codec's initiate_connection is invoked at most once, and no
\* stream's HEADERS are sent before a handshake that was written.
C23_HandshakeOnce ==
    /\ h2_state.initiated <= 1
    /\ h2_state.highest_outbound_stream_id > 0 => h2_state.initiated = 1

\* A DATA event sits in a FIFO: body_iter has not acknowledged it yet.
Unacknowledged ==
    \E sid \in DOMAIN events : \E i \in 1..Len(events[sid]) :
        events[sid][i].type = "DataReceived"

\* C24: no task reads the socket while a DATA event that was queued for a
\* stream has not been acknowledged.
C24_AcknowledgedBeforeNextRead ==
    [][(\E t \in Tasks : task[t].pc = "recv_read" /\ task'[t].pc = "recv_feed")
          => ~Unacknowledged]_vars

\* The tasks inside the admission section of request().
Admitting == {t \in Tasks : task[t].pc \in {"init_lock", "alloc"}}

\* C25: the tasks that hold a slot of streams_semaphore are exactly the
\* tasks inside the admission section of request().
C25_SemaphoreHeldDuringAdmission ==
    sem_held = Cardinality(Admitting)

\* C26: a sender that waits in socket.read for its window to open, with
\* nothing on the wire, has no positive outgoing flow.
C26_BlockedSenderHasNoFlow ==
    \A t \in Tasks :
        (task[t].pc = "recv_read" /\ task[t].phase = "flow"
            /\ socket.wire = <<>> /\ ~socket.eof)
            => outgoing_flow(task[t].stream_id) <= 0

\* C28: no DATA event is discarded without acknowledgement: close_stream
\* removes no FIFO that holds one, and receive_events drops none for want
\* of a registered stream.
C28_NoDataEventDiscarded ==
    [][/\ \A sid \in DOMAIN events :
             sid \notin DOMAIN events'
                 => \A i \in 1..Len(events[sid]) :
                       events[sid][i].type # "DataReceived"
       /\ \A t \in Tasks :
             (task[t].pc = "recv_dispatch" /\ task'[t].pc # "recv_dispatch")
                 => \A i \in 1..Len(task[t].rbuf) :
                       task[t].rbuf[i].type = "DataReceived"
                           => task[t].rbuf[i].stream_id \in DOMAIN events]_vars

\* The output completely written: passed to a socket.write that has returned.
Complete == Range(writes) \ UNION {Range(wtask[t].payload) : t \in inwrite}

\* C21: no two socket.write calls that carry bytes are in progress at once.
C21_WritesDoNotOverlap ==
    Cardinality({t \in inwrite : wtask[t].payload # <<>>}) <= 1

\* C22: when a send_* call returns, the output the codec generated for it
\* is completely written; and when a task calls socket.read while no call
\* is on its way to data_to_send, the codec's buffer is empty.
C22_OutputWrittenOnReturn ==
    [][\A t \in Tasks :
          /\ (wtask[t].pc = "writing" /\ wtask'[t].pc # "writing"
                 /\ wtask[t].op \in SendOps)
                => wtask[t].mine \subseteq Complete'
          /\ (wtask[t].pc = "wait_event" /\ wtask'[t].pc = "reading"
                 /\ \A u \in Tasks : wtask[u].pc \notin {"drain", "dispatch"})
                => outbuf = <<>>]_vars

\* C27: the output reaches socket.write in the order the codec generated it.
C27_WrittenInCodecOrder ==
    \A i, j \in 1..Len(writes) : i < j => writes[i] < writes[j]

====
